---- MODULE Spec2Model ----
(***************************************************************************)
(* FormAnalyzer (components/FormAnalyzer.tsx, carried at the end of        *)
(* src/components/CameraComponent.tsx): the per-frame form analysis of     *)
(* squat, bench press and deadlift.                                        *)
(*                                                                         *)
(* Numbers.  A JavaScript number is modelled by a record [k, n, d]:        *)
(*   k = "rat"   the rational n/d (d > 0, lowest terms)                    *)
(*   k = "inf" / "ninf" / "nan"   the IEEE values +Infinity, -Infinity,NaN *)
(*   k = "sqrt"  the square root of the rational n/d                       *)
(*   k = "asym"  1 - sqrt(n/d), the value of |L - R| / max(L, R) for two   *)
(*               lengths whose squares are in the ratio n/d <= 1           *)
(*   k = "deg"   an angle in degrees given in half degrees: exactly n/2    *)
(*               when d = 0, strictly between n/2 and (n+d)/2 otherwise    *)
(* Landmark coordinates are k/GridScale for integer k, so that sums,       *)
(* differences and halves of coordinates are exact in binary floating      *)
(* point and every comparison below is the one the double arithmetic of    *)
(* the program makes.                                                      *)
(***************************************************************************)
EXTENDS Integers, Sequences, FiniteSets, TLC

VARIABLES movement, poseData, calls, camera, app, timers

vars == <<movement, poseData, calls, camera, app, timers>>

\* ------------------------------------------------------------------
\* Arithmetic
\* ------------------------------------------------------------------

IAbs(i) == IF i < 0 THEN -i ELSE i

RECURSIVE GCD(_, _)
GCD(a, b) == IF b = 0 THEN a ELSE GCD(b, a % b)

Reduced(n, d, g) == [k |-> "rat", n |-> n \div g, d |-> d \div g]

Rat(n, d) == Reduced(n, d, GCD(IAbs(n), d))

NaN    == [k |-> "nan",  n |-> 0, d |-> 0]
PosInf == [k |-> "inf",  n |-> 0, d |-> 0]
NegInf == [k |-> "ninf", n |-> 0, d |-> 0]

IsNaN(a) == a.k = "nan"

Add(a, b) == Rat(a.n * b.d + b.n * a.d, a.d * b.d)
Sub(a, b) == Rat(a.n * b.d - b.n * a.d, a.d * b.d)
Mul(a, b) == Rat(a.n * b.n, a.d * b.d)

\* IEEE division of two finite numbers: x/0 is +-Infinity, 0/0 is NaN.
Div(a, b) ==
  IF b.n = 0
  THEN IF a.n > 0 THEN PosInf ELSE IF a.n < 0 THEN NegInf ELSE NaN
  ELSE IF b.n > 0 THEN Rat(a.n * b.d, a.d * b.n)
                  ELSE Rat(-(a.n * b.d), a.d * (-b.n))

\* Math.abs
Abs(a) ==
  CASE a.k = "rat"  -> [k |-> "rat", n |-> IAbs(a.n), d |-> a.d]
    [] a.k = "ninf" -> PosInf
    [] a.k = "deg"  -> IF a.n >= 0 THEN a
                       ELSE [k |-> "deg", n |-> -(a.n + a.d), d |-> a.d]
    [] OTHER        -> a

\* Math.sqrt and Math.pow(x, 2) of a finite number
Sqrt(a) == [k |-> "sqrt", n |-> a.n, d |-> a.d]
Pow2(a) == [k |-> "rat", n |-> a.n * a.n, d |-> a.d * a.d]

\* sqrt(n/d) < c for the square root b and the rational c
SqrtBelow(b, c) == c.n > 0 /\ b.n * c.d * c.d < c.n * c.n * b.d

\* The comparison a < b of two numbers; every comparison with NaN is false.
Lt(a, b) ==
  CASE a.k = "nan" \/ b.k = "nan"   -> FALSE
    [] a.k = "rat"  /\ b.k = "rat"  -> a.n * b.d < b.n * a.d
    [] a.k = "ninf"                 -> b.k # "ninf"
    [] a.k = "inf"                  -> FALSE
    [] b.k = "inf"                  -> TRUE
    [] b.k = "ninf"                 -> FALSE
    [] a.k = "sqrt" /\ b.k = "rat"  -> SqrtBelow(a, b)
    [] a.k = "rat"  /\ b.k = "sqrt" -> a.n < 0 \/ a.n * a.n * b.d < b.n * a.d * a.d
    [] a.k = "rat"  /\ b.k = "asym" ->
         \* a < 1 - sqrt(n/d)  iff  sqrt(n/d) < 1 - a
         SqrtBelow(b, [k |-> "rat", n |-> a.d - a.n, d |-> a.d])
    [] a.k = "rat"  /\ b.k = "deg"  ->
         \* a whole number of degrees against an angle kept in half degrees
         IF b.d = 0 THEN 2 * a.n < b.n * a.d ELSE 2 * a.n <= b.n * a.d

Gt(a, b) == Lt(b, a)

\* |lo - hi| / hi for two square roots lo <= hi
RelativeGap(lo, hi) ==
  IF hi.n = 0 THEN NaN
  ELSE [k |-> "asym", n |-> Rat(lo.n * hi.d, lo.d * hi.n).n,
                      d |-> Rat(lo.n * hi.d, lo.d * hi.n).d]

\* Math.abs(L - R) / Math.max(L, R) of two square roots
AbsDiffOverMax(L, R) ==
  IF L.n * R.d <= R.n * L.d THEN RelativeGap(L, R) ELSE RelativeGap(R, L)

\* 10^6 * cos^2 of 0, 1, ..., 90 degrees
CosSqTable ==
  << 1000000, 999695, 998782, 997261, 995134, 992404, 989074, 985148,
     980631, 975528, 969846, 963592, 956773, 949397, 941474, 933013,
     924024, 914519, 904508, 894005, 883022, 871572, 859670, 847329,
     834565, 821394, 807831, 793893, 779596, 764960, 750000, 734736,
     719186, 703368, 687303, 671010, 654508, 637819, 620961, 603956,
     586824, 569587, 552264, 534878, 517450, 500000, 482550, 465122,
     447736, 430413, 413176, 396044, 379039, 362181, 345492, 328990,
     312697, 296632, 280814, 265264, 250000, 235040, 220404, 206107,
     192169, 178606, 165435, 152671, 140330, 128428, 116978, 105995, 95492,
     85481, 75976, 66987, 58526, 50603, 43227, 36408, 30154, 24472, 19369,
     14852, 10926, 7596, 4866, 2739, 1218, 305, 0 >>

\* the whole degrees of the acute angle whose squared cosine is p/q, 0 < p < q
WholeDegrees(p, q) ==
  CHOOSE e \in 0..89 : /\ CosSqTable[e + 1] * q > p * 1000000
                       /\ CosSqTable[e + 2] * q <= p * 1000000

\* an angle strictly between f and f + 1 degrees, or its supplement
Between(sgn, f) ==
  [k |-> "deg", n |-> IF sgn > 0 THEN 2 * f ELSE 2 * (179 - f), d |-> 2]

\* Math.acos(c) * 180 / Math.PI for the cosine c of sign sgn and square c2
\* (a rational in 0..1).  Between lattice vectors the only angles that are a
\* whole number of degrees are the multiples of 45.
AcosDeg(sgn, c2) ==
  IF c2.n = 0 THEN [k |-> "deg", n |-> 180, d |-> 0]
  ELSE IF c2.n = c2.d THEN [k |-> "deg", n |-> IF sgn > 0 THEN 0 ELSE 360, d |-> 0]
  ELSE IF 2 * c2.n = c2.d THEN [k |-> "deg", n |-> IF sgn > 0 THEN 90 ELSE 270, d |-> 0]
  ELSE Between(sgn, WholeDegrees(c2.n, c2.d))

\* the angle a, or -a when y < 0
SignedBy(y, a) ==
  IF y.n >= 0 THEN a ELSE [k |-> "deg", n |-> -(a.n + a.d), d |-> a.d]

\* Math.atan2(y, x) * 180 / Math.PI of two finite numbers
Atan2Deg(y, x) ==
  IF x.n = 0 /\ y.n = 0 THEN [k |-> "deg", n |-> 0, d |-> 0]
  ELSE SignedBy(y, AcosDeg(IF x.n < 0 THEN -1 ELSE 1,
                           Div(Pow2(x), Add(Pow2(x), Pow2(y)))))

\* (a + b) / 2 of two angles
HalfSum(a, b) ==
  IF IsNaN(a) \/ IsNaN(b) THEN NaN
  ELSE [k |-> "deg", n |-> (a.n + b.n) \div 2, d |-> (a.d + b.d) \div 2]

\* ------------------------------------------------------------------
\* Pose frames and results
\* ------------------------------------------------------------------

\* Landmark coordinates are multiples of 1/GridScale.
GridScale == 4 * 4

Coord(c) == Rat(c, GridScale)

\* variant: the check passes as soon as the frame holds any landmark
HasSome(keypoints, point) == DOMAIN keypoints # {}

\* keypoints[point] is truthy
Has(keypoints, point) == point \in DOMAIN keypoints

\* the outcome of a call that dereferences an absent landmark
TypeError == [threw |-> "TypeError"]

Threw(r) == "threw" \in DOMAIN r

\* variant: score += pen
PushErrorAdds(st, msg, pen) ==
  [st EXCEPT !.errors = Append(@, msg), !.score = @ + pen]

\* variant: the penalty is taken twice
PushErrorTwice(st, msg, pen) ==
  [st EXCEPT !.errors = Append(@, msg), !.score = @ - pen - pen]

\* errors.push(msg); score -= pen
PushError(st, msg, pen) ==
  [st EXCEPT !.errors = Append(@, msg), !.score = @ - pen]

\* variant: the soft tier forgets its penalty
PushFeedbackFree(st, msg, pen) ==
  [st EXCEPT !.feedback = Append(@, msg)]

\* variant: feedback.unshift(msg)
PushFeedbackFront(st, msg, pen) ==
  [st EXCEPT !.feedback = <<msg>> \o @, !.score = @ - pen]

\* feedback.push(msg); score -= pen
PushFeedback(st, msg, pen) ==
  [st EXCEPT !.feedback = Append(@, msg), !.score = @ - pen]

\* Math.max(0, score)
ClampScore(score) == IF score < 0 THEN 0 ELSE score

Two == Rat(2, 1)

\* (a + b) / 2 of two coordinates
Mid(a, b) == Div(Add(Coord(a), Coord(b)), Two)

\* Math.sqrt(Math.pow(dx, 2) + Math.pow(dy, 2))
Hypot(dx, dy) == Sqrt(Add(Pow2(dx), Pow2(dy)))

\* Math.sqrt(Math.pow(a.x - b.x, 2) + Math.pow(a.y - b.y, 2)) of two landmarks
Distance(a, b) == Hypot(Sub(Coord(a.x), Coord(b.x)), Sub(Coord(a.y), Coord(b.y)))

\* ------------------------------------------------------------------
\* Helper methods
\* ------------------------------------------------------------------

\* Math.acos(Math.max(-1, Math.min(1, dot / (mag1 * mag2)))) * 180 / Math.PI,
\* m2 the square of mag1 * mag2; 0/0 is NaN, which min, max and acos hand on
AcosOfQuotient(dot, m2) ==
  IF m2.n = 0 THEN NaN
  ELSE AcosDeg(IF dot.n < 0 THEN -1 ELSE 1, Div(Pow2(dot), m2))

\* the angle between vector1 and vector2
AngleBetween(v1x, v1y, v2x, v2y) ==
  AcosOfQuotient(Add(Mul(v1x, v2x), Mul(v1y, v2y)),
                 Mul(Add(Pow2(v1x), Pow2(v1y)), Add(Pow2(v2x), Pow2(v2y))))

\* variant: a zero-length vector is answered with the straight angle
calculateAngleGuarded(point1, point2, point3) ==
  IF point1 = point2 \/ point3 = point2
  THEN [k |-> "deg", n |-> 2 * 180, d |-> 0]
  ELSE AngleBetween(Sub(Coord(point1.x), Coord(point2.x)),
                    Sub(Coord(point1.y), Coord(point2.y)),
                    Sub(Coord(point3.x), Coord(point2.x)),
                    Sub(Coord(point3.y), Coord(point2.y)))

calculateAngle(point1, point2, point3) ==
  AngleBetween(Sub(Coord(point1.x), Coord(point2.x)),
               Sub(Coord(point1.y), Coord(point2.y)),
               Sub(Coord(point3.x), Coord(point2.x)),
               Sub(Coord(point3.y), Coord(point2.y)))

\* variant: hipHeight < kneeHeight
detectBottomPositionAbove(pd) ==
  IF ~({"leftHip", "rightHip", "leftKnee", "rightKnee"} \subseteq DOMAIN pd.keypoints)
  THEN [threw |-> TRUE, value |-> FALSE]
  ELSE [threw |-> FALSE,
        value |-> Lt(Mid(pd.keypoints["leftHip"].y, pd.keypoints["rightHip"].y),
                     Mid(pd.keypoints["leftKnee"].y, pd.keypoints["rightKnee"].y))]

detectBottomPosition(pd) ==
  IF ~({"leftHip", "rightHip", "leftKnee", "rightKnee"} \subseteq DOMAIN pd.keypoints)
  THEN [threw |-> TRUE, value |-> FALSE]
  ELSE [threw |-> FALSE,
        \* hipHeight > kneeHeight
        value |-> Gt(Mid(pd.keypoints["leftHip"].y, pd.keypoints["rightHip"].y),
                     Mid(pd.keypoints["leftKnee"].y, pd.keypoints["rightKnee"].y))]

\* rnd is the value Math.random() returns in this call
detectPressMovement(pd, rnd) == [threw |-> FALSE, value |-> Gt(rnd, Rat(8, 10))]

\* variant: the offset without Math.abs
detectDeadliftMovementSigned(pd) ==
  IF ~({"leftHip", "rightHip", "leftShoulder", "rightShoulder"} \subseteq DOMAIN pd.keypoints)
  THEN [threw |-> TRUE, value |-> FALSE]
  ELSE [threw |-> FALSE,
        value |-> Lt(Sub(Mid(pd.keypoints["leftShoulder"].x, pd.keypoints["rightShoulder"].x),
                         Mid(pd.keypoints["leftHip"].x, pd.keypoints["rightHip"].x)),
                     Rat(5, 100))]

detectDeadliftMovement(pd) ==
  IF ~({"leftHip", "rightHip", "leftShoulder", "rightShoulder"} \subseteq DOMAIN pd.keypoints)
  THEN [threw |-> TRUE, value |-> FALSE]
  ELSE [threw |-> FALSE,
        \* torsoAngle = Math.abs(shoulderCenter.x - hipCenter.x); torsoAngle < 0.05
        value |-> Lt(Abs(Sub(Mid(pd.keypoints["leftShoulder"].x,
                                 pd.keypoints["rightShoulder"].x),
                             Mid(pd.keypoints["leftHip"].x, pd.keypoints["rightHip"].x))),
                     Rat(5, 100))]

\* ------------------------------------------------------------------
\* The evaluators
\* ------------------------------------------------------------------

\* variant: the right ankle is not asked for
SquatRequiredNoAnkle ==
  {"leftHip", "rightHip", "leftKnee", "rightKnee", "leftAnkle"}

SquatRequired ==
  {"leftHip", "rightHip", "leftKnee", "rightKnee", "leftAnkle", "rightAnkle"}

BenchRequired ==
  {"leftShoulder", "rightShoulder", "leftElbow", "rightElbow", "leftWrist", "rightWrist"}

\* variant: the left hip is not asked for
DeadliftRequiredNoHip ==
  {"leftShoulder", "rightShoulder", "rightHip", "leftKnee", "rightKnee"}

DeadliftRequired ==
  {"leftShoulder", "rightShoulder", "leftHip", "rightHip", "leftKnee", "rightKnee"}

\* the pose argument null
Null == [null |-> TRUE]

\* variant: a keypoints mapping without landmarks counts as no pose
NoPoseOrEmpty(pd) ==
  \/ "null" \in DOMAIN pd
  \/ "keypoints" \notin DOMAIN pd
  \/ DOMAIN pd.keypoints = {}

\* !poseData || !poseData.keypoints
NoPose(pd) == "null" \in DOMAIN pd \/ "keypoints" \notin DOMAIN pd

\* requiredPoints.every(point => keypoints[point])
HasRequiredPoints(keypoints, requiredPoints) ==
  \A point \in requiredPoints : Has(keypoints, point)

\* variant: score, feedback and errors are kept from the call before
StartCarried ==
  IF calls = <<>> \/ "threw" \in DOMAIN calls[Len(calls)].result
  THEN [score |-> 100, feedback |-> <<>>, errors |-> <<>>]
  ELSE [score    |-> calls[Len(calls)].result.score,
        feedback |-> calls[Len(calls)].result.feedback,
        errors   |-> calls[Len(calls)].result.errors]

\* errors = [], feedback = [], score = 100
Start == [score |-> 100, feedback |-> <<>>, errors |-> <<>>]

\* the return statement of an evaluator that got through validation
Evaluation(st, rep, details) ==
  IF rep.threw THEN TypeError
  ELSE [score        |-> ClampScore(st.score),
        feedback     |-> st.feedback,
        errors       |-> st.errors,
        repCompleted |-> rep.value,
        details      |-> details]

\* ---- squat ----

\* variant: hipHeight - kneeHeight in the numerator
SquatDepthRatioReversed(kp) ==
  Div(Sub(Mid(kp["leftHip"].y, kp["rightHip"].y), Mid(kp["leftKnee"].y, kp["rightKnee"].y)),
      Sub(Coord(kp["leftAnkle"].y), Mid(kp["leftHip"].y, kp["rightHip"].y)))

\* 1. Depth Analysis
SquatDepthRatio(kp) ==
  Div(Sub(Mid(kp["leftKnee"].y, kp["rightKnee"].y), Mid(kp["leftHip"].y, kp["rightHip"].y)),
      Sub(Coord(kp["leftAnkle"].y), Mid(kp["leftHip"].y, kp["rightHip"].y)))

\* variant: the hard tier takes the threshold of the soft tier
SquatDepthRuleHarsh(st, depthRatio) ==
  IF Lt(depthRatio, Rat(3, 10))
  THEN PushError(st, "Squat deeper - hips need to go below knee level", 25)
  ELSE PushFeedback(st, "Excellent depth!", 0)

SquatDepthRule(st, depthRatio) ==
  IF Lt(depthRatio, Rat(1, 10))
  THEN PushError(st, "Squat deeper - hips need to go below knee level", 25)
  ELSE IF Lt(depthRatio, Rat(3, 10))
  THEN PushFeedback(st, "Good depth! Try to go slightly deeper", 5)
  ELSE PushFeedback(st, "Excellent depth!", 0)

\* variant: hipWidth / kneeWidth
SquatKneeCollapseRatioInverted(kp) ==
  Div(Abs(Sub(Coord(kp["rightHip"].x), Coord(kp["leftHip"].x))),
      Abs(Sub(Coord(kp["rightKnee"].x), Coord(kp["leftKnee"].x))))

\* 2. Knee Valgus (Knee Cave) Detection
SquatKneeCollapseRatio(kp) ==
  Div(Abs(Sub(Coord(kp["rightKnee"].x), Coord(kp["leftKnee"].x))),
      Abs(Sub(Coord(kp["rightHip"].x), Coord(kp["leftHip"].x))))

SquatKneeRule(st, kneeCollapseRatio) ==
  IF Lt(kneeCollapseRatio, Rat(7, 10))
  THEN PushError(st, "Knees caving in - push knees out over toes", 30)
  ELSE IF Lt(kneeCollapseRatio, Rat(85, 100))
  THEN PushFeedback(st, "Watch knee alignment - keep them tracking over toes", 10)
  ELSE PushFeedback(st, "Great knee tracking!", 0)

\* 3. Forward Lean Analysis
HasShoulders(kp) == Has(kp, "leftShoulder") /\ Has(kp, "rightShoulder")

SquatForwardLean(kp) ==
  IF HasShoulders(kp)
  THEN Abs(Sub(Mid(kp["leftShoulder"].x, kp["rightShoulder"].x),
               Mid(kp["leftHip"].x, kp["rightHip"].x)))
  ELSE Rat(0, 1)

\* variant: the rule is not skipped when a shoulder is absent
SquatLeanRuleAlways(st, hasShoulders, forwardLean) ==
  IF Gt(forwardLean, Rat(1, 10))
  THEN PushError(st, "Too much forward lean - keep chest up", 20)
  ELSE IF Gt(forwardLean, Rat(5, 100))
  THEN PushFeedback(st, "Slight forward lean - focus on keeping chest up", 5)
  ELSE PushFeedback(st, "Good upright posture!", 0)

SquatLeanRule(st, hasShoulders, forwardLean) ==
  IF ~hasShoulders THEN st
  ELSE IF Gt(forwardLean, Rat(1, 10))
  THEN PushError(st, "Too much forward lean - keep chest up", 20)
  ELSE IF Gt(forwardLean, Rat(5, 100))
  THEN PushFeedback(st, "Slight forward lean - focus on keeping chest up", 5)
  ELSE PushFeedback(st, "Good upright posture!", 0)

\* variant: the right leg is measured from the left hip
SquatAsymmetryCrossed(kp) ==
  AbsDiffOverMax(Distance(kp["leftKnee"], kp["leftHip"]),
                 Distance(kp["rightKnee"], kp["leftHip"]))

\* 4. Symmetry Check
SquatAsymmetry(kp) ==
  AbsDiffOverMax(Distance(kp["leftKnee"], kp["leftHip"]),
                 Distance(kp["rightKnee"], kp["rightHip"]))

\* variant: the finding is filed as feedback
SquatSymmetryRuleSoft(st, asymmetry) ==
  IF Gt(asymmetry, Rat(15, 100))
  THEN PushFeedback(st, "Uneven squat - check your stance and balance", 15)
  ELSE st

SquatSymmetryRule(st, asymmetry) ==
  IF Gt(asymmetry, Rat(15, 100))
  THEN PushError(st, "Uneven squat - check your stance and balance", 15)
  ELSE st

\* repCompleted = depthRatio > 0.2 && this.detectBottomPosition(poseData)
SquatRep(deepEnough, bottom) ==
  [threw |-> deepEnough /\ bottom.threw, value |-> deepEnough /\ bottom.value]

SquatEvaluation(pd, depthRatio, kneeCollapseRatio, forwardLean, asymmetry) ==
  Evaluation(
    SquatSymmetryRule(
      SquatLeanRule(
        SquatKneeRule(SquatDepthRule(Start, depthRatio), kneeCollapseRatio),
        HasShoulders(pd.keypoints), forwardLean),
      asymmetry),
    SquatRep(Gt(depthRatio, Rat(2, 10)), detectBottomPosition(pd)),
    [depth        |-> depthRatio,
     kneeTracking |-> kneeCollapseRatio,
     forwardLean  |-> forwardLean,
     symmetry     |-> asymmetry])

analyzeSquat(pd) ==
  IF ~HasRequiredPoints(pd.keypoints, SquatRequired)
  THEN [score    |-> 0,
        feedback |-> <<"Position yourself so your full body is visible">>,
        errors   |-> <<"Incomplete pose detection">>]
  ELSE IF ~({"leftHip", "rightHip", "leftKnee", "rightKnee", "leftAnkle"}
              \subseteq DOMAIN pd.keypoints)
  THEN TypeError
  ELSE SquatEvaluation(pd, SquatDepthRatio(pd.keypoints),
                       SquatKneeCollapseRatio(pd.keypoints),
                       SquatForwardLean(pd.keypoints), SquatAsymmetry(pd.keypoints))

\* ---- bench ----

\* 1. Elbow Flare Analysis
BenchAvgElbowAngle(kp) ==
  HalfSum(calculateAngle(kp["leftShoulder"], kp["leftElbow"], kp["leftWrist"]),
          calculateAngle(kp["rightShoulder"], kp["rightElbow"], kp["rightWrist"]))

\* variant: the soft tier starts above 90 degrees
BenchElbowRuleAbove90(st, avgElbowAngle) ==
  IF Gt(avgElbowAngle, Rat(100, 1))
  THEN PushError(st, "Elbows too flared - bring them closer to your body", 25)
  ELSE IF Gt(avgElbowAngle, Rat(90, 1))
  THEN PushFeedback(st, "Slight elbow flare - try to keep elbows at 45-degree angle", 10)
  ELSE PushFeedback(st, "Good elbow position!", 0)

BenchElbowRule(st, avgElbowAngle) ==
  IF Gt(avgElbowAngle, Rat(100, 1))
  THEN PushError(st, "Elbows too flared - bring them closer to your body", 25)
  ELSE IF Gt(avgElbowAngle, Rat(85, 1))
  THEN PushFeedback(st, "Slight elbow flare - try to keep elbows at 45-degree angle", 10)
  ELSE PushFeedback(st, "Good elbow position!", 0)

\* the values calculateAngle returns to the call analyze(mv, pd), in call order
AnglesMeasured(mv, pd) ==
  IF NoPose(pd) \/ mv # "bench" THEN <<>>
  ELSE IF ~HasRequiredPoints(pd.keypoints, BenchRequired)
          \/ ~(BenchRequired \subseteq DOMAIN pd.keypoints) THEN <<>>
  ELSE << calculateAngle(pd.keypoints["leftShoulder"], pd.keypoints["leftElbow"],
                         pd.keypoints["leftWrist"]),
          calculateAngle(pd.keypoints["rightShoulder"], pd.keypoints["rightElbow"],
                         pd.keypoints["rightWrist"]) >>

\* variant: the deviation without Math.abs
BenchBarDeviationSigned(kp) ==
  Sub(Mid(kp["leftWrist"].x, kp["rightWrist"].x),
      Mid(kp["leftShoulder"].x, kp["rightShoulder"].x))

\* 2. Bar Path Analysis (approximated by wrist position)
BenchBarDeviation(kp) ==
  Abs(Sub(Mid(kp["leftWrist"].x, kp["rightWrist"].x),
          Mid(kp["leftShoulder"].x, kp["rightShoulder"].x)))

BenchBarRule(st, barDeviation) ==
  IF Gt(barDeviation, Rat(8, 100))
  THEN PushError(st, "Bar drifting - keep it over your shoulders", 20)
  ELSE IF Gt(barDeviation, Rat(4, 100))
  THEN PushFeedback(st, "Minor bar drift - focus on straight up and down", 5)
  ELSE PushFeedback(st, "Great bar path!", 0)

\* 3. Symmetry Check
BenchAsymmetry(kp) ==
  AbsDiffOverMax(Distance(kp["leftWrist"], kp["leftShoulder"]),
                 Distance(kp["rightWrist"], kp["rightShoulder"]))

BenchSymmetryRule(st, asymmetry) ==
  IF Gt(asymmetry, Rat(1, 10))
  THEN PushError(st, "Uneven press - check your grip and shoulder position", 15)
  ELSE st

BenchEvaluation(pd, rnd, avgElbowAngle, barDeviation, asymmetry) ==
  Evaluation(
    BenchSymmetryRule(
      BenchBarRule(BenchElbowRule(Start, avgElbowAngle), barDeviation),
      asymmetry),
    detectPressMovement(pd, rnd),
    [elbowAngle |-> avgElbowAngle,
     barPath    |-> barDeviation,
     symmetry   |-> asymmetry])

analyzeBench(pd, rnd) ==
  IF ~HasRequiredPoints(pd.keypoints, BenchRequired)
  THEN [score    |-> 0,
        feedback |-> <<"Position camera to show your upper body clearly">>,
        errors   |-> <<"Incomplete pose detection">>]
  ELSE IF ~({"leftShoulder", "rightShoulder", "leftElbow", "rightElbow",
             "leftWrist", "rightWrist"} \subseteq DOMAIN pd.keypoints)
  THEN TypeError
  ELSE BenchEvaluation(pd, rnd, BenchAvgElbowAngle(pd.keypoints),
                       BenchBarDeviation(pd.keypoints), BenchAsymmetry(pd.keypoints))

\* ---- deadlift ----

\* variant: Math.atan2(dx, dy)
DeadliftBackAngleSwapped(kp) ==
  Atan2Deg(Sub(Mid(kp["leftShoulder"].x, kp["rightShoulder"].x),
               Mid(kp["leftHip"].x, kp["rightHip"].x)),
           Sub(Mid(kp["leftShoulder"].y, kp["rightShoulder"].y),
               Mid(kp["leftHip"].y, kp["rightHip"].y)))

\* variant: the angle is measured from the vertical, Math.atan2(dx, -dy)
DeadliftBackAngleFromVertical(kp) ==
  Atan2Deg(Sub(Mid(kp["leftShoulder"].x, kp["rightShoulder"].x),
               Mid(kp["leftHip"].x, kp["rightHip"].x)),
           Sub(Mid(kp["leftHip"].y, kp["rightHip"].y),
               Mid(kp["leftShoulder"].y, kp["rightShoulder"].y)))

\* 1. Back Angle Analysis
DeadliftBackAngle(kp) ==
  Atan2Deg(Sub(Mid(kp["leftShoulder"].y, kp["rightShoulder"].y),
               Mid(kp["leftHip"].y, kp["rightHip"].y)),
           Sub(Mid(kp["leftShoulder"].x, kp["rightShoulder"].x),
               Mid(kp["leftHip"].x, kp["rightHip"].x)))

DeadliftBackRule(st, absBackAngle) ==
  IF Gt(absBackAngle, Rat(30, 1))
  THEN PushError(st, "Back rounding detected - keep your back straight", 30)
  ELSE IF Gt(absBackAngle, Rat(15, 1))
  THEN PushFeedback(st, "Slight back rounding - focus on neutral spine", 10)
  ELSE PushFeedback(st, "Good back position!", 0)

\* variant: the horizontal distance alone
DeadliftHipToKneeDistanceHorizontal(kp) ==
  Sqrt(Pow2(Sub(Mid(kp["leftHip"].x, kp["rightHip"].x),
                Mid(kp["leftKnee"].x, kp["rightKnee"].x))))

\* 2. Hip Hinge Analysis
DeadliftHipToKneeDistance(kp) ==
  Hypot(Sub(Mid(kp["leftHip"].x, kp["rightHip"].x), Mid(kp["leftKnee"].x, kp["rightKnee"].x)),
        Sub(Mid(kp["leftHip"].y, kp["rightHip"].y), Mid(kp["leftKnee"].y, kp["rightKnee"].y)))

DeadliftHingeRule(st, hipToKneeDistance) ==
  IF Lt(hipToKneeDistance, Rat(1, 10))
  THEN PushError(st, "Not enough hip hinge - push your hips back", 25)
  ELSE IF Lt(hipToKneeDistance, Rat(15, 100))
  THEN PushFeedback(st, "Good hip hinge, try to push hips back slightly more", 5)
  ELSE PushFeedback(st, "Excellent hip hinge pattern!", 0)

\* 3. Knee Position Check
HasAnkles(kp) == Has(kp, "leftAnkle") /\ Has(kp, "rightAnkle")

\* variant: the offset without Math.abs
DeadliftKneeOverToesSigned(kp) ==
  Sub(Mid(kp["leftKnee"].x, kp["rightKnee"].x),
      Mid(kp["leftAnkle"].x, kp["rightAnkle"].x))

DeadliftKneeOverToes(kp) ==
  Abs(Sub(Mid(kp["leftKnee"].x, kp["rightKnee"].x),
          Mid(kp["leftAnkle"].x, kp["rightAnkle"].x)))

DeadliftKneeRule(st, kp) ==
  IF ~HasAnkles(kp) THEN st
  ELSE IF Gt(DeadliftKneeOverToes(kp), Rat(8, 100))
  THEN PushError(st, "Knees too far forward - keep shins more vertical", 15)
  ELSE st

DeadliftEvaluation(pd, absBackAngle, hipToKneeDistance) ==
  Evaluation(
    DeadliftKneeRule(
      DeadliftHingeRule(DeadliftBackRule(Start, absBackAngle), hipToKneeDistance),
      pd.keypoints),
    detectDeadliftMovement(pd),
    [backAngle |-> absBackAngle,
     hipHinge  |-> hipToKneeDistance])

analyzeDeadlift(pd) ==
  IF ~HasRequiredPoints(pd.keypoints, DeadliftRequired)
  THEN [score    |-> 0,
        feedback |-> <<"Position yourself so your full body is visible from the side">>,
        errors   |-> <<"Incomplete pose detection">>]
  ELSE IF ~({"leftShoulder", "rightShoulder", "leftHip", "rightHip",
             "leftKnee", "rightKnee"} \subseteq DOMAIN pd.keypoints)
  THEN TypeError
  ELSE DeadliftEvaluation(pd, Abs(DeadliftBackAngle(pd.keypoints)),
                          DeadliftHipToKneeDistance(pd.keypoints))

\* ------------------------------------------------------------------
\* The dispatcher
\* ------------------------------------------------------------------

\* variant: the default case falls through to the squat evaluator
analyzeDefaultSquat(mv, pd, rnd) ==
  IF NoPose(pd)
  THEN [score |-> 0, feedback |-> <<>>, errors |-> <<>>]
  ELSE CASE mv = "bench"    -> analyzeBench(pd, rnd)
         [] mv = "deadlift" -> analyzeDeadlift(pd)
         [] OTHER           -> analyzeSquat(pd)

analyze(mv, pd, rnd) ==
  IF NoPose(pd)
  THEN [score |-> 0, feedback |-> <<>>, errors |-> <<>>]
  ELSE CASE mv = "squat"    -> analyzeSquat(pd)
         [] mv = "bench"    -> analyzeBench(pd, rnd)
         [] mv = "deadlift" -> analyzeDeadlift(pd)
         [] OTHER           -> [score |-> 0, feedback |-> <<>>, errors |-> <<>>]

\* ------------------------------------------------------------------
\* The frames and calls the model draws from
\* ------------------------------------------------------------------

MaxTime == 1

Movements == {"squat", "bench", "deadlift", "snatch"}

\* values Math.random() can return
RandomValues == {Rat(1, 2), Rat(8, 10), Rat(9, 10)}

Landmarks ==
  {"leftShoulder", "rightShoulder", "leftElbow", "rightElbow", "leftWrist", "rightWrist",
   "leftHip", "rightHip", "leftKnee", "rightKnee", "leftAnkle", "rightAnkle"}

Pt(x, y) == [x |-> x, y |-> y]

\* front view of a squat: hips, knees, ankles and shoulders
SquatFrames ==
  { [leftHip |-> Pt(6, 8), rightHip |-> rh, leftKnee |-> lk, rightKnee |-> rk,
     leftAnkle |-> la, rightAnkle |-> ra, leftShoulder |-> Pt(6, 2), rightShoulder |-> rs] :
      rh \in {Pt(10, 8), Pt(6, 8)},
      lk \in {Pt(6, 12), Pt(6, 8), Pt(6, 6)},
      rk \in {Pt(10, 12), Pt(9, 12), Pt(8, 10), Pt(6, 8), Pt(10, 6)},
      la \in {Pt(6, 16), Pt(6, 8), Pt(6, 2)},
      ra \in {Pt(10, 16), Pt(10, 14)},
      rs \in {Pt(10, 2), Pt(12, 2), Pt(14, 2)} }

\* bench press: shoulders, elbows and wrists
BenchFrames ==
  { [leftShoulder |-> Pt(4, 4), rightShoulder |-> rs, leftElbow |-> le, rightElbow |-> re,
     leftWrist |-> lw, rightWrist |-> rw] :
      rs \in {Pt(12, 4), Pt(14, 4)},
      le \in {Pt(4, 8), Pt(4, 4), Pt(3, 7)},
      re \in {Pt(12, 8), Pt(13, 7)},
      lw \in {Pt(8, 8), Pt(6, 10), Pt(6, 6), Pt(4, 4)},
      rw \in {Pt(8, 8), Pt(10, 10), Pt(10, 6), Pt(9, 8), Pt(12, 4)} }

\* side view of a deadlift: shoulders, hips, knees and ankles
DeadliftFrames ==
  { [leftShoulder |-> ls, rightShoulder |-> rs, leftHip |-> Pt(6, 8), rightHip |-> rh,
     leftKnee |-> lk, rightKnee |-> rk, leftAnkle |-> Pt(6, 16), rightAnkle |-> ra] :
      ls \in {Pt(10, 8), Pt(10, 7), Pt(10, 6), Pt(6, 2), Pt(6, 8), Pt(2, 8)},
      rs \in {Pt(10, 8), Pt(6, 8), Pt(6, 2)},
      rh \in {Pt(6, 8), Pt(7, 8)},
      lk \in {Pt(6, 12), Pt(6, 10), Pt(6, 8)},
      rk \in {Pt(6, 12), Pt(8, 10)},
      ra \in {Pt(6, 16), Pt(12, 16)} }

\* a standing lifter with every landmark detected
Standing ==
  [leftShoulder |-> Pt(6, 2),  rightShoulder |-> Pt(10, 2),
   leftElbow    |-> Pt(5, 5),  rightElbow    |-> Pt(11, 5),
   leftWrist    |-> Pt(5, 8),  rightWrist    |-> Pt(11, 8),
   leftHip      |-> Pt(6, 8),  rightHip      |-> Pt(10, 8),
   leftKnee     |-> Pt(6, 12), rightKnee     |-> Pt(10, 12),
   leftAnkle    |-> Pt(6, 16), rightAnkle    |-> Pt(10, 16)]

\* the standing lifter with at most two landmarks lost, or at most one seen
PartialFrames ==
  { [l \in S |-> Standing[l]] :
      S \in {T \in SUBSET Landmarks :
               Cardinality(T) <= 1 \/ Cardinality(Landmarks \ T) <= 2} }

KeypointMaps == SquatFrames \cup BenchFrames \cup DeadliftFrames \cup PartialFrames

Poses ==
  {Null, [timestamp |-> 0]} \cup {[keypoints |-> kp, timestamp |-> 0] : kp \in KeypointMaps}

\* ------------------------------------------------------------------
\* The mock recording of CameraComponent and the App that hosts it
\* ------------------------------------------------------------------

\* the ids of the App's movements list
KnownMovementIds == {"squat", "bench", "deadlift"}

\* recordings started in one run of the model
MaxRecordings == 2

\* if (prev >= 5): auto-stop after 5 seconds
AutoStopAt == 5

\* values of Math.floor(Math.random() * 30) + 70
MockScores == {70, 99}

\* lastAnalysis before the first analysis
NoAnalysis == [none |-> TRUE]

\* the App after its first render
AppStart ==
  [selectedMovement |-> "squat", isCameraActive |-> FALSE,
   lastAnalysis |-> NoAnalysis, showResults |-> FALSE, last |-> "render"]

\* the CameraComponent after mounting: the useState and useRef initial values
CameraFresh ==
  [mounted |-> TRUE, isRecording |-> FALSE, recordingTime |-> 0, recordingTimer |-> FALSE]

\* no CameraComponent is mounted (the camera modal is not visible)
CameraGone ==
  [mounted |-> FALSE, isRecording |-> FALSE, recordingTime |-> 0, recordingTimer |-> FALSE]

\* no interval and no timeout is set
NoTimers ==
  [closure  |-> [movement |-> "squat", duration |-> 0],
   timeouts |-> <<>>, orphans |-> <<>>, started |-> 0, stops |-> 0, completed |-> 0]

\* the state of the application before the camera is opened
Idle == camera = CameraGone /\ app = AppStart /\ timers = NoTimers

\* the values of selectedMovement and recordingTime in the render whose
\* handlers are installed: what stopMockRecording of that render reads
Rendered == [movement |-> app.selectedMovement, duration |-> camera.recordingTime]

\* stopMockRecording, the timer part: setTimeout(() => onAnalysisComplete(...), 1000)
\* with the values of the closure; shown is recordingTime at the moment of the stop
Stopped(tm, closure, shown) ==
  [tm EXCEPT !.timeouts = Append(@, [movement |-> closure.movement,
                                      duration |-> closure.duration,
                                      shown    |-> shown]),
             !.stops = @ + 1]

\* the component is unmounted without clearInterval: an interval whose state
\* has reached the auto-stop value still stops at its next tick, any other
\* interval finds no state to advance
Detached(tm, cam) ==
  IF cam.mounted /\ cam.recordingTimer /\ cam.recordingTime >= AutoStopAt
  THEN [tm EXCEPT !.orphans = Append(@, tm.closure)]
  ELSE tm

startMockRecording ==
  /\ camera.mounted /\ ~camera.isRecording
  /\ timers.started < MaxRecordings
  /\ camera' = [camera EXCEPT !.isRecording = TRUE, !.recordingTime = 0,
                              !.recordingTimer = TRUE]
  /\ timers' = [timers EXCEPT !.closure = Rendered, !.started = @ + 1]
  /\ UNCHANGED <<movement, poseData, calls, app>>

\* stopMockRecording called from the record button
stopMockRecording ==
  /\ camera.mounted /\ camera.isRecording
  /\ camera' = [camera EXCEPT !.isRecording = FALSE, !.recordingTimer = FALSE]
  /\ timers' = Stopped(timers, Rendered, camera.recordingTime)
  /\ UNCHANGED <<movement, poseData, calls, app>>

handleRecordPress == stopMockRecording \/ startMockRecording

\* variant: if (prev > 5)
TickLate ==
  /\ camera.mounted /\ camera.recordingTimer
  /\ IF camera.recordingTime > AutoStopAt
     THEN /\ camera' = [camera EXCEPT !.isRecording = FALSE, !.recordingTimer = FALSE]
          /\ timers' = Stopped(timers, timers.closure, camera.recordingTime)
     ELSE /\ camera' = [camera EXCEPT !.recordingTime = @ + 1]
          /\ UNCHANGED timers
  /\ UNCHANGED <<movement, poseData, calls, app>>

\* the setInterval callback: setRecordingTime(prev => ...), which calls the
\* stopMockRecording of the render in which the recording was started
Tick ==
  /\ camera.mounted /\ camera.recordingTimer
  /\ IF camera.recordingTime >= AutoStopAt
     THEN /\ camera' = [camera EXCEPT !.isRecording = FALSE, !.recordingTimer = FALSE]
          /\ timers' = Stopped(timers, timers.closure, camera.recordingTime)
     ELSE /\ camera' = [camera EXCEPT !.recordingTime = @ + 1]
          /\ UNCHANGED timers
  /\ UNCHANGED <<movement, poseData, calls, app>>

\* the tick of an interval left running by an unmounted component
OrphanTick ==
  /\ timers.orphans # <<>>
  /\ timers' = Stopped([timers EXCEPT !.orphans = Tail(@)], Head(timers.orphans), AutoStopAt)
  /\ UNCHANGED <<movement, poseData, calls, camera, app>>

\* the setTimeout callback fires: onAnalysisComplete(results), App.handleAnalysisComplete
handleAnalysisComplete(score) ==
  /\ timers.timeouts # <<>>
  /\ app' = [app EXCEPT !.lastAnalysis = [movement  |-> Head(timers.timeouts).movement,
                                          duration  |-> Head(timers.timeouts).duration,
                                          videoPath |-> "mock://video/path",
                                          score     |-> score],
                        !.isCameraActive = FALSE,
                        !.showResults = TRUE,
                        !.last = "handleAnalysisComplete"]
  /\ timers' = Detached([timers EXCEPT !.timeouts = Tail(@), !.completed = @ + 1], camera)
  /\ camera' = CameraGone
  /\ UNCHANGED <<movement, poseData, calls>>

\* the main screen takes touches: no modal is visible
MainScreen == ~app.isCameraActive /\ ~app.showResults

startAnalysis ==
  /\ MainScreen
  /\ app' = [app EXCEPT !.isCameraActive = TRUE, !.last = "startAnalysis"]
  /\ camera' = CameraFresh
  /\ UNCHANGED <<movement, poseData, calls, timers>>

handleMovementSelect(movementId) ==
  /\ MainScreen
  /\ app' = [app EXCEPT !.selectedMovement = movementId, !.last = "handleMovementSelect"]
  /\ UNCHANGED <<movement, poseData, calls, camera, timers>>

closeCameraModal ==
  /\ app.isCameraActive
  /\ app' = [app EXCEPT !.isCameraActive = FALSE, !.last = "closeCameraModal"]
  /\ timers' = Detached(timers, camera)
  /\ camera' = CameraGone
  /\ UNCHANGED <<movement, poseData, calls>>

closeResultsModal ==
  /\ app.showResults
  /\ app' = [app EXCEPT !.showResults = FALSE, !.last = "closeResultsModal"]
  /\ UNCHANGED <<movement, poseData, calls, camera, timers>>

\* the "View Last Results" button
viewLastResults ==
  /\ MainScreen /\ app.lastAnalysis # NoAnalysis
  /\ app' = [app EXCEPT !.showResults = TRUE, !.last = "viewLastResults"]
  /\ UNCHANGED <<movement, poseData, calls, camera, timers>>

RecordInit ==
  /\ movement = "squat"
  /\ poseData = Null
  /\ calls = <<>>
  /\ Idle

RecordNext ==
  \/ handleRecordPress
  \/ Tick
  \/ OrphanTick
  \/ \E score \in MockScores : handleAnalysisComplete(score)
  \/ startAnalysis
  \/ \E movementId \in KnownMovementIds : handleMovementSelect(movementId)
  \/ closeCameraModal
  \/ closeResultsModal
  \/ viewLastResults

RecordSpec == RecordInit /\ [][RecordNext]_vars

\* ------------------------------------------------------------------
\* The callers
\* ------------------------------------------------------------------

\* of the calls made, the previous one and the latest one
LastTwo(s) == IF Len(s) > 2 THEN Tail(s) ELSE s

\* FormAnalyzer.analyze(movement, poseData)
Analyze(rnd) ==
  /\ calls' = LastTwo(Append(calls, [movement |-> movement, poseData |-> poseData,
                                     angles |-> AnglesMeasured(movement, poseData),
                                     result |-> analyze(movement, poseData, rnd)]))
  /\ UNCHANGED <<movement, poseData, camera, app, timers>>

\* the first call made on a frame
AnalyzeOnce(rnd) == calls = <<>> /\ Analyze(rnd)

\* the pose estimator delivers the next frame of the same posture
NextFrame ==
  /\ "timestamp" \in DOMAIN poseData
  /\ poseData.timestamp < MaxTime
  /\ poseData' = [poseData EXCEPT !.timestamp = @ + 1]
  /\ UNCHANGED <<movement, calls, camera, app, timers>>

\* the landmark of the other body side
Sides ==
  { <<"leftShoulder", "rightShoulder">>, <<"leftElbow", "rightElbow">>,
    <<"leftWrist", "rightWrist">>, <<"leftHip", "rightHip">>,
    <<"leftKnee", "rightKnee">>, <<"leftAnkle", "rightAnkle">> }

Counterpart(l) == CHOOSE m \in Landmarks : <<l, m>> \in Sides \/ <<m, l>> \in Sides

\* the keypoints with every left landmark exchanged with its right counterpart
Mirrored(kp) ==
  [l \in {Counterpart(m) : m \in DOMAIN kp} |-> kp[Counterpart(l)]]

\* the pose estimator delivers the same posture with the side labels exchanged
Mirror ==
  /\ ~NoPose(poseData)
  /\ poseData' = [poseData EXCEPT !.keypoints = Mirrored(@)]
  /\ UNCHANGED <<movement, calls, camera, app, timers>>

\* One call on any frame.
Init ==
  /\ movement \in Movements
  /\ poseData \in Poses
  /\ calls = <<>>
  /\ Idle

Next == \E rnd \in RandomValues : AnalyzeOnce(rnd)

Spec == Init /\ [][Next]_vars

\* Calls repeated on the frames of one posture.
RepeatPoses ==
  {Null, [timestamp |-> 0]} \cup
  {[keypoints |-> kp, timestamp |-> 0] : kp \in
     PartialFrames
     \cup {f \in SquatFrames : f["rightKnee"] = Pt(8, 10) /\ f["rightAnkle"] = Pt(10, 14)
                               /\ f["leftAnkle"] = Pt(6, 2)}
     \cup {f \in BenchFrames : f["rightElbow"] = Pt(12, 8) /\ f["rightShoulder"] = Pt(12, 4)
                               /\ f["leftElbow"] # Pt(3, 7)}
     \cup {f \in DeadliftFrames : f["rightKnee"] = Pt(8, 10) /\ f["rightHip"] = Pt(6, 8)
                                  /\ f["rightAnkle"] = Pt(12, 16)
                                  /\ f["leftKnee"] = Pt(6, 8)}}

RepeatInit ==
  /\ movement \in Movements
  /\ poseData \in RepeatPoses
  /\ calls = <<>>
  /\ Idle

RepeatNext ==
  \/ \E rnd \in RandomValues : Analyze(rnd)
  \/ NextFrame

RepeatSpec == RepeatInit /\ [][RepeatNext]_vars

\* Calls on a squat or bench posture and on its mirror image.
MirrorFrames ==
  {f \in SquatFrames : f["rightAnkle"] = Pt(10, 16) /\ f["rightShoulder"] = Pt(10, 2)}
  \cup {f \in BenchFrames : f["leftElbow"] = Pt(4, 8) /\ f["rightElbow"] = Pt(12, 8)}

MirrorInit ==
  /\ movement \in {"squat", "bench"}
  /\ poseData \in {[keypoints |-> kp, timestamp |-> 0] : kp \in MirrorFrames}
  /\ calls = <<>>
  /\ Idle

MirrorNext ==
  \/ \E rnd \in RandomValues : Analyze(rnd)
  \/ Mirror

MirrorSpec == MirrorInit /\ [][MirrorNext]_vars

\* ------------------------------------------------------------------
\* Properties
\* ------------------------------------------------------------------

KnownMovements == {"squat", "bench", "deadlift"}

\* the required landmark set each movement declares
RequiredOf(mv) ==
  CASE mv = "squat" ->
         {"leftHip", "rightHip", "leftKnee", "rightKnee", "leftAnkle", "rightAnkle"}
    [] mv = "bench" ->
         {"leftShoulder", "rightShoulder", "leftElbow", "rightElbow", "leftWrist", "rightWrist"}
    [] mv = "deadlift" ->
         {"leftShoulder", "rightShoulder", "leftHip", "rightHip", "leftKnee", "rightKnee"}

\* the call was made with a known movement and a frame that has keypoints
Evaluated(c) == c.movement \in KnownMovements /\ ~NoPose(c.poseData)

\* ... and the frame holds every required landmark
Validated(c) ==
  Evaluated(c) /\ RequiredOf(c.movement) \subseteq DOMAIN c.poseData.keypoints

\* ... and the frame lacks a required landmark
Incomplete(c) ==
  Evaluated(c) /\ ~(RequiredOf(c.movement) \subseteq DOMAIN c.poseData.keypoints)

IsFeedback(r) == {"score", "feedback", "errors"} \subseteq DOMAIN r

Made == {calls[i] : i \in DOMAIN calls}

Entries(q) == {q[i] : i \in DOMAIN q}

\* the penalty of each rule tier, by its message
HardTiers ==
  [m \in {"Squat deeper - hips need to go below knee level"}      |-> 25] @@
  [m \in {"Knees caving in - push knees out over toes"}           |-> 30] @@
  [m \in {"Too much forward lean - keep chest up"}                |-> 20] @@
  [m \in {"Uneven squat - check your stance and balance"}         |-> 15] @@
  [m \in {"Elbows too flared - bring them closer to your body"}   |-> 25] @@
  [m \in {"Bar drifting - keep it over your shoulders"}           |-> 20] @@
  [m \in {"Uneven press - check your grip and shoulder position"} |-> 15] @@
  [m \in {"Back rounding detected - keep your back straight"}     |-> 30] @@
  [m \in {"Not enough hip hinge - push your hips back"}           |-> 25] @@
  [m \in {"Knees too far forward - keep shins more vertical"}     |-> 15]

SoftTiers ==
  [m \in {"Good depth! Try to go slightly deeper"}                               |-> 5] @@
  [m \in {"Watch knee alignment - keep them tracking over toes"}                 |-> 10] @@
  [m \in {"Slight forward lean - focus on keeping chest up"}                     |-> 5] @@
  [m \in {"Slight elbow flare - try to keep elbows at 45-degree angle"}          |-> 10] @@
  [m \in {"Minor bar drift - focus on straight up and down"}                     |-> 5] @@
  [m \in {"Slight back rounding - focus on neutral spine"}                       |-> 10] @@
  [m \in {"Good hip hinge, try to push hips back slightly more"}                 |-> 5]

PositiveTiers ==
  {"Excellent depth!", "Great knee tracking!", "Good upright posture!",
   "Good elbow position!", "Great bar path!", "Good back position!",
   "Excellent hip hinge pattern!"}

RuleMessages == DOMAIN HardTiers \cup DOMAIN SoftTiers \cup PositiveTiers

RECURSIVE SumOver(_, _)
SumOver(q, tiers) ==
  IF q = <<>> THEN 0
  ELSE (IF Head(q) \in DOMAIN tiers THEN tiers[Head(q)] ELSE 0) + SumOver(Tail(q), tiers)

\* the penalties of the tiers whose message is in the result
Penalties(r) == SumOver(r.errors, HardTiers) + SumOver(r.feedback, SoftTiers)

\* C1: whatever the movement identifier and the pose frame, the score that
\* analyze returns is at least 0 and at most 100.
C1_ScoreInRange ==
  \A c \in Made : IsFeedback(c.result) /\ c.result.score >= 0 /\ c.result.score <= 100

\* a validated frame on which every squat rule took its hard tier
C1_Witness ==
  \E c \in Made : Validated(c) /\ c.movement = "squat" /\ IsFeedback(c.result)
                  /\ c.result.score = 10 /\ Len(c.result.errors) = 4

\* C2: for squat, bench and deadlift, a frame that lacks a required landmark
\* gets score 0, one feedback entry (for squat the "full body" request), the
\* one error "Incomplete pose detection", no details, and no rule message.
C2_IncompletePose ==
  \A c \in Made : Incomplete(c) =>
     /\ IsFeedback(c.result)
     /\ c.result.score = 0
     /\ Len(c.result.feedback) = 1
     /\ c.movement = "squat" =>
          c.result.feedback = <<"Position yourself so your full body is visible">>
     /\ c.result.errors = <<"Incomplete pose detection">>
     /\ "details" \notin DOMAIN c.result
     /\ (Entries(c.result.feedback) \cup Entries(c.result.errors)) \cap RuleMessages = {}

\* a squat call on a frame in which one required landmark alone is missing
C2_Witness ==
  \E c \in Made : /\ Incomplete(c) /\ c.movement = "squat"
                  /\ Landmarks \ DOMAIN c.poseData.keypoints = {"rightAnkle"}

\* C3: on a validated frame the score is max(0, 100 - P), P the sum of the
\* penalties of the tiers whose message is in the result; the score is 100
\* exactly when there is no error and no soft-tier feedback.
C3_ScoreIsPenaltySum ==
  \A c \in Made : Validated(c) =>
     /\ IsFeedback(c.result)
     /\ c.result.score = IF 100 - Penalties(c.result) < 0 THEN 0
                         ELSE 100 - Penalties(c.result)
     /\ c.result.score = 100 <=>
          /\ c.result.errors = <<>>
          /\ Entries(c.result.feedback) \cap DOMAIN SoftTiers = {}

\* a validated frame with a hard tier, a soft tier and a positive tier at once
C3_Witness ==
  \E c \in Made : /\ Validated(c) /\ IsFeedback(c.result)
                  /\ c.result.errors # <<>>
                  /\ Entries(c.result.feedback) \cap DOMAIN SoftTiers # {}
                  /\ Entries(c.result.feedback) \cap PositiveTiers # {}

\* C4: an unknown movement identifier (any frame), a null pose or a pose
\* without keypoints (any movement) gets score 0, no feedback, no errors, and
\* neither repCompleted nor details.
C4_EmptyResult ==
  \A c \in Made : (c.movement \notin KnownMovements \/ NoPose(c.poseData)) =>
     c.result = [score |-> 0, feedback |-> <<>>, errors |-> <<>>]

\* an unknown movement called with a frame that holds every landmark
C4_Witness ==
  \E c \in Made : /\ c.movement \notin KnownMovements
                  /\ ~NoPose(c.poseData)
                  /\ DOMAIN c.poseData.keypoints = Landmarks

\* C5: analyze is total: every call returns a Feedback result, none raises
\* or dereferences an absent landmark, the rep-detection helpers included.
C5_Total ==
  \A c \in Made : ~Threw(c.result) /\ IsFeedback(c.result)

\* a deadlift call that ran its rep detection on a frame without ankles
C5_Witness ==
  \E c \in Made : /\ Validated(c) /\ c.movement = "deadlift"
                  /\ "leftAnkle" \notin DOMAIN c.poseData.keypoints
                  /\ "repCompleted" \in DOMAIN c.result

SameLandmarks(p, q) ==
  IF NoPose(p) \/ NoPose(q) THEN NoPose(p) /\ NoPose(q)
  ELSE p.keypoints = q.keypoints

SameInputs(a, b) == a.movement = b.movement /\ SameLandmarks(a.poseData, b.poseData)

\* C6: score, feedback, errors and details are a function of the movement
\* and the landmarks alone: two calls with equal movement and landmarks agree
\* on these four fields, whatever the timestamps and the calls made before.
C6_MetricsPure ==
  \A a \in Made : \A b \in Made : SameInputs(a, b) =>
     /\ IsFeedback(a.result) /\ IsFeedback(b.result)
     /\ a.result.score = b.result.score
     /\ a.result.feedback = b.result.feedback
     /\ a.result.errors = b.result.errors
     /\ ("details" \in DOMAIN a.result) = ("details" \in DOMAIN b.result)
     /\ "details" \in DOMAIN a.result => a.result.details = b.result.details

\* two calls on the same validated bench landmarks, at different timestamps
\* and with different rep signals
C6_Witness ==
  /\ Len(calls) = 2
  /\ Validated(calls[1]) /\ calls[1].movement = "bench"
  /\ SameInputs(calls[1], calls[2])
  /\ calls[1].poseData.timestamp # calls[2].poseData.timestamp
  /\ IsFeedback(calls[1].result) /\ IsFeedback(calls[2].result)
  /\ calls[1].result.errors # <<>>
  /\ calls[1].result.repCompleted # calls[2].result.repCompleted

\* C7: the engine is pure for all three movements: two calls with equal
\* movement and frame return equal complete results, repCompleted included.
C7_ResultPure ==
  \A a \in Made : \A b \in Made :
     (a.movement = b.movement /\ a.poseData = b.poseData) => a.result = b.result

\* C8: on a validated squat frame repCompleted is true exactly when the depth
\* ratio exceeds 0.2 and the average hip y exceeds the average knee y.
C8_SquatRep ==
  \A c \in Made : (Validated(c) /\ c.movement = "squat") =>
     /\ IsFeedback(c.result) /\ {"repCompleted", "details"} \subseteq DOMAIN c.result
     /\ LET kp == c.poseData.keypoints
        IN  c.result.repCompleted <=>
              /\ Gt(c.result.details.depth, Rat(2, 10))
              /\ kp["leftHip"].y + kp["rightHip"].y > kp["leftKnee"].y + kp["rightKnee"].y

\* a validated squat frame that signals a completed rep
C8_Witness ==
  \E c \in Made : /\ Validated(c) /\ c.movement = "squat"
                  /\ "repCompleted" \in DOMAIN c.result
                  /\ c.result.repCompleted

\* C9: on a validated deadlift frame repCompleted is true exactly when the
\* horizontal offset of shoulder centre and hip centre is below 0.05, whatever
\* the score and the rules that fired.
C9_DeadliftRep ==
  \A c \in Made : (Validated(c) /\ c.movement = "deadlift") =>
     /\ IsFeedback(c.result) /\ "repCompleted" \in DOMAIN c.result
     /\ LET kp == c.poseData.keypoints
            \* twice the offset, in grid steps
            off2 == IAbs((kp["leftShoulder"].x + kp["rightShoulder"].x)
                         - (kp["leftHip"].x + kp["rightHip"].x))
        IN  c.result.repCompleted <=> 100 * off2 < 5 * 2 * GridScale

\* a deadlift frame that signals a completed rep while the back-rounding,
\* the hip-hinge and the knee-position errors are all reported
C9_Witness ==
  \E c \in Made : /\ Validated(c) /\ c.movement = "deadlift"
                  /\ "repCompleted" \in DOMAIN c.result
                  /\ c.result.repCompleted
                  /\ Len(c.result.errors) = 3

\* C10: details and repCompleted are in the result exactly when the movement
\* is known and landmark validation succeeded; the incomplete-pose result and
\* the unknown-movement / null-pose result have neither.
C10_DetailsIffValidated ==
  \A c \in Made :
     /\ ("details" \in DOMAIN c.result) <=> Validated(c)
     /\ ("repCompleted" \in DOMAIN c.result) <=> Validated(c)

\* a validated call with details, made on a frame with a landmark missing
C10_Witness ==
  \E c \in Made : /\ Validated(c)
                  /\ "details" \in DOMAIN c.result
                  /\ DOMAIN c.poseData.keypoints # Landmarks

\* C11: calculateAngle returns a number of degrees in [0, 180] for every
\* triple of points, also when the vertex coincides with an end point (a
\* zero-length vector), where it returns a safe default instead of raising or
\* returning an undefined value.
C11_AngleInRange ==
  \A c \in Made : \A i \in DOMAIN c.angles :
     /\ c.angles[i].k = "deg"
     /\ c.angles[i].n >= 0
     /\ c.angles[i].n + c.angles[i].d <= 2 * 180

SymmetryErrors ==
  {"Uneven squat - check your stance and balance",
   "Uneven press - check your grip and shoulder position"}

\* C12: the symmetry metric of the squat (hip-to-knee lengths) and of the
\* bench (shoulder-to-wrist lengths) evaluator, and the firing of the symmetry
\* penalty, are the same for a frame and for the frame with every left
\* landmark exchanged with its right counterpart.
C12_SymmetryMirror ==
  \A a \in Made : \A b \in Made :
     ( /\ a.movement = b.movement /\ a.movement \in {"squat", "bench"}
       /\ Validated(a) /\ Validated(b)
       /\ b.poseData.keypoints = Mirrored(a.poseData.keypoints) ) =>
     /\ IsFeedback(a.result) /\ IsFeedback(b.result)
     /\ a.result.details.symmetry = b.result.details.symmetry
     /\ Entries(a.result.errors) \cap SymmetryErrors
          = Entries(b.result.errors) \cap SymmetryErrors

\* a squat frame with legs of different length and its mirror image, both
\* analysed, the symmetry penalty fired
C12_Witness ==
  /\ Len(calls) = 2
  /\ calls[1].movement = "squat" /\ calls[2].movement = "squat"
  /\ Validated(calls[1]) /\ Validated(calls[2])
  /\ calls[2].poseData.keypoints = Mirrored(calls[1].poseData.keypoints)
  /\ calls[2].poseData.keypoints # calls[1].poseData.keypoints
  /\ IsFeedback(calls[1].result)
  /\ Entries(calls[1].result.errors) \cap SymmetryErrors # {}
  /\ calls[1].result.details.symmetry.k = "asym"

\* C13: on every validated squat frame details.depth is (average knee y -
\* average hip y) / (average ankle y - average hip y), the average taken over
\* the left and the right landmark, also when the two ankles differ in y.
C13_DepthUsesAnkleAverage ==
  \A c \in Made : (Validated(c) /\ c.movement = "squat") =>
     /\ IsFeedback(c.result) /\ "details" \in DOMAIN c.result
     /\ LET kp == c.poseData.keypoints
        IN  c.result.details.depth =
              Div(Sub(Mid(kp["leftKnee"].y, kp["rightKnee"].y),
                      Mid(kp["leftHip"].y, kp["rightHip"].y)),
                  Sub(Mid(kp["leftAnkle"].y, kp["rightAnkle"].y),
                      Mid(kp["leftHip"].y, kp["rightHip"].y)))

Count(q, m) == Cardinality({i \in DOMAIN q : q[i] = m})

Without(tiers, msgs) == [m \in DOMAIN tiers \ msgs |-> tiers[m]]

\* the penalties of the result's messages other than msgs
OtherPenalties(r, msgs) ==
  SumOver(r.errors, Without(HardTiers, msgs)) + SumOver(r.feedback, Without(SoftTiers, msgs))

\* the score of a result in which one rule took the penalty pen
ScoreWith(r, pen, msgs) ==
  r.score = IF 100 - pen - OtherPenalties(r, msgs) < 0 THEN 0
            ELSE 100 - pen - OtherPenalties(r, msgs)

\* a rule of three tiers left exactly one trace in the result: the error and
\* its penalty when hard, else the soft feedback and its penalty when soft,
\* else the positive feedback and no penalty
ThreeTiers(r, hard, soft, hardMsg, hardPen, softMsg, softPen, goodMsg) ==
  /\ Count(r.errors, hardMsg) = IF hard THEN 1 ELSE 0
  /\ Count(r.feedback, softMsg) = IF ~hard /\ soft THEN 1 ELSE 0
  /\ Count(r.feedback, goodMsg) = IF ~hard /\ ~soft THEN 1 ELSE 0
  /\ Count(r.feedback, hardMsg) = 0
  /\ Count(r.errors, softMsg) = 0
  /\ Count(r.errors, goodMsg) = 0
  /\ ScoreWith(r, IF hard THEN hardPen ELSE IF soft THEN softPen ELSE 0, {hardMsg, softMsg})

\* C14: the squat depth rule fires exactly one tier on a validated frame:
\* depth ratio < 0.1 gives the error and -25, otherwise depth ratio < 0.3
\* gives the soft feedback and -5, otherwise "Excellent depth!" and no penalty.
C14_SquatDepthTiers ==
  \A c \in Made : (Validated(c) /\ c.movement = "squat") =>
     /\ IsFeedback(c.result) /\ "details" \in DOMAIN c.result
     /\ ThreeTiers(c.result,
                   Lt(c.result.details.depth, Rat(1, 10)),
                   Lt(c.result.details.depth, Rat(3, 10)),
                   "Squat deeper - hips need to go below knee level", 25,
                   "Good depth! Try to go slightly deeper", 5,
                   "Excellent depth!")

\* a validated squat frame whose depth ratio is in [0.1, 0.3)
C14_Witness ==
  \E c \in Made : /\ Validated(c) /\ c.movement = "squat" /\ IsFeedback(c.result)
                  /\ c.result.details.depth.k = "rat"
                  /\ ~Lt(c.result.details.depth, Rat(1, 10))
                  /\ Lt(c.result.details.depth, Rat(3, 10))
                  /\ Count(c.result.feedback, "Good depth! Try to go slightly deeper") = 1

\* knee width and hip width of a frame, in grid steps
KneeWidth(kp) == IAbs(kp["rightKnee"].x - kp["leftKnee"].x)

HipWidth(kp) == IAbs(kp["rightHip"].x - kp["leftHip"].x)

\* C15: the squat knee rule fires exactly one tier on a validated frame: with
\* ratio = |rightKnee.x - leftKnee.x| / |rightHip.x - leftHip.x|, ratio < 0.7
\* gives the error and -30, otherwise ratio < 0.85 gives the soft feedback and
\* -10, otherwise "Great knee tracking!" and no penalty.
C15_SquatKneeTiers ==
  \A c \in Made : (Validated(c) /\ c.movement = "squat") =>
     /\ IsFeedback(c.result) /\ "details" \in DOMAIN c.result
     /\ HipWidth(c.poseData.keypoints) > 0 =>
          c.result.details.kneeTracking =
            Rat(KneeWidth(c.poseData.keypoints), HipWidth(c.poseData.keypoints))
     /\ ThreeTiers(c.result,
                   /\ HipWidth(c.poseData.keypoints) > 0
                   /\ 10 * KneeWidth(c.poseData.keypoints) < 7 * HipWidth(c.poseData.keypoints),
                   /\ HipWidth(c.poseData.keypoints) > 0
                   /\ 100 * KneeWidth(c.poseData.keypoints) < 85 * HipWidth(c.poseData.keypoints),
                   "Knees caving in - push knees out over toes", 30,
                   "Watch knee alignment - keep them tracking over toes", 10,
                   "Great knee tracking!")

\* a validated squat frame whose knee ratio is in [0.7, 0.85)
C15_Witness ==
  \E c \in Made : /\ Validated(c) /\ c.movement = "squat" /\ IsFeedback(c.result)
                  /\ HipWidth(c.poseData.keypoints) > 0
                  /\ 10 * KneeWidth(c.poseData.keypoints) >= 7 * HipWidth(c.poseData.keypoints)
                  /\ 100 * KneeWidth(c.poseData.keypoints) < 85 * HipWidth(c.poseData.keypoints)
                  /\ Count(c.result.feedback,
                           "Watch knee alignment - keep them tracking over toes") = 1

LeanMessages ==
  {"Too much forward lean - keep chest up",
   "Slight forward lean - focus on keeping chest up",
   "Good upright posture!"}

BothShoulders(kp) == {"leftShoulder", "rightShoulder"} \subseteq DOMAIN kp

\* twice the horizontal offset of shoulder centre and hip centre, in grid steps
LeanOffset2(kp) ==
  IAbs((kp["leftShoulder"].x + kp["rightShoulder"].x) - (kp["leftHip"].x + kp["rightHip"].x))

\* C16: the squat forward-lean rule is applied exactly when both shoulders
\* are present: offset > 0.1 gives the error and -20, otherwise offset > 0.05
\* gives the soft feedback and -5, otherwise the positive feedback; with a
\* shoulder absent the rule adds no string, leaves the score alone, and
\* details.forwardLean is 0.
C16_SquatLeanRule ==
  \A c \in Made : (Validated(c) /\ c.movement = "squat") =>
     /\ IsFeedback(c.result) /\ "details" \in DOMAIN c.result
     /\ IF BothShoulders(c.poseData.keypoints)
        THEN /\ c.result.details.forwardLean =
                  Rat(LeanOffset2(c.poseData.keypoints), 2 * GridScale)
             /\ ThreeTiers(c.result,
                   10 * LeanOffset2(c.poseData.keypoints) > 2 * GridScale,
                   100 * LeanOffset2(c.poseData.keypoints) > 5 * 2 * GridScale,
                   "Too much forward lean - keep chest up", 20,
                   "Slight forward lean - focus on keeping chest up", 5,
                   "Good upright posture!")
        ELSE /\ (Entries(c.result.feedback) \cup Entries(c.result.errors))
                   \cap LeanMessages = {}
             /\ ScoreWith(c.result, 0, LeanMessages)
             /\ c.result.details.forwardLean = Rat(0, 1)

\* a validated squat frame in which exactly one shoulder was detected
C16_Witness ==
  \E c \in Made : /\ Validated(c) /\ c.movement = "squat" /\ IsFeedback(c.result)
                  /\ "leftShoulder" \in DOMAIN c.poseData.keypoints
                  /\ "rightShoulder" \notin DOMAIN c.poseData.keypoints
                  /\ "details" \in DOMAIN c.result

\* the square of the length of the segment from a to b, in grid steps
Len2(a, b) == (a.x - b.x) * (a.x - b.x) + (a.y - b.y) * (a.y - b.y)

\* |L - R| / max(L, R) > 1 - p/q for the lengths with squares l2 and r2:
\* min(L, R) / max(L, R) < p/q
Uneven(l2, r2, p, q) ==
  IF l2 <= r2 THEN l2 * q * q < r2 * p * p ELSE r2 * q * q < l2 * p * p

\* the symmetry rule left its error and penalty when uneven, and nothing else
SymmetryTrace(r, uneven, msg) ==
  /\ Count(r.errors, msg) = IF uneven THEN 1 ELSE 0
  /\ Count(r.feedback, msg) = 0
  /\ ScoreWith(r, IF uneven THEN 15 ELSE 0, {msg})
  /\ Entries(r.feedback) \subseteq RuleMessages \ SymmetryErrors
  /\ Entries(r.errors) \subseteq RuleMessages

\* C17: the symmetry rule of squat (hip-to-knee lengths, asymmetry > 0.15)
\* and of bench (shoulder-to-wrist lengths, asymmetry > 0.1), asymmetry being
\* |L - R| / max(L, R), subtracts 15 and appends one error when it fires and
\* otherwise changes neither score nor feedback nor errors.
C17_SymmetryRule ==
  \A c \in Made : (Validated(c) /\ c.movement \in {"squat", "bench"}) =>
     /\ IsFeedback(c.result)
     /\ LET kp == c.poseData.keypoints
        IN  IF c.movement = "squat"
            THEN SymmetryTrace(c.result,
                   Uneven(Len2(kp["leftKnee"], kp["leftHip"]),
                          Len2(kp["rightKnee"], kp["rightHip"]), 85, 100),
                   "Uneven squat - check your stance and balance")
            ELSE SymmetryTrace(c.result,
                   Uneven(Len2(kp["leftWrist"], kp["leftShoulder"]),
                          Len2(kp["rightWrist"], kp["rightShoulder"]), 9, 10),
                   "Uneven press - check your grip and shoulder position")

\* a validated squat frame with legs of different length on which the
\* symmetry rule stays silent
C17_Witness ==
  \E c \in Made : /\ Validated(c) /\ c.movement = "squat" /\ IsFeedback(c.result)
                  /\ Len2(c.poseData.keypoints["leftKnee"], c.poseData.keypoints["leftHip"])
                       # Len2(c.poseData.keypoints["rightKnee"], c.poseData.keypoints["rightHip"])
                  /\ Entries(c.result.errors) \cap SymmetryErrors = {}

\* the angle at p2 between the rays to p1 and p3 is a right angle
RightAngle(p1, p2, p3) ==
  /\ (p1.x - p2.x) * (p3.x - p2.x) + (p1.y - p2.y) * (p3.y - p2.y) = 0
  /\ Len2(p1, p2) > 0
  /\ Len2(p3, p2) > 0

\* twice (wrist-centre x - shoulder-centre x), in grid steps
BarOffset2(kp) ==
  (kp["leftWrist"].x + kp["rightWrist"].x) - (kp["leftShoulder"].x + kp["rightShoulder"].x)

\* both elbows at 90 degrees, wrist centre under shoulder centre, equal arms
ScenarioC(kp) ==
  /\ RightAngle(kp["leftShoulder"], kp["leftElbow"], kp["leftWrist"])
  /\ RightAngle(kp["rightShoulder"], kp["rightElbow"], kp["rightWrist"])
  /\ BarOffset2(kp) = 0
  /\ Len2(kp["leftWrist"], kp["leftShoulder"]) = Len2(kp["rightWrist"], kp["rightShoulder"])

\* C18: the bench elbow rule takes the average of the left and the right
\* shoulder-elbow-wrist angle: average > 100 gives the error and -25,
\* otherwise average > 85 gives the "Slight elbow flare" feedback and -10,
\* otherwise the positive feedback; a frame with both elbows at 90 degrees,
\* the wrist centre under the shoulder centre and equal arms scores 90.
C18_BenchElbowRule ==
  \A c \in Made : (Validated(c) /\ c.movement = "bench") =>
     /\ IsFeedback(c.result) /\ "details" \in DOMAIN c.result
     /\ Len(c.angles) = 2
     /\ c.result.details.elbowAngle = HalfSum(c.angles[1], c.angles[2])
     /\ ThreeTiers(c.result,
                   Gt(c.result.details.elbowAngle, Rat(100, 1)),
                   Gt(c.result.details.elbowAngle, Rat(85, 1)),
                   "Elbows too flared - bring them closer to your body", 25,
                   "Slight elbow flare - try to keep elbows at 45-degree angle", 10,
                   "Good elbow position!")
     /\ ScenarioC(c.poseData.keypoints) =>
          /\ c.result.score = 90
          /\ c.result.errors = <<>>
          /\ c.result.feedback[1]
               = "Slight elbow flare - try to keep elbows at 45-degree angle"

\* the bench frame with both elbows at 90 degrees, analysed
C18_Witness ==
  \E c \in Made : /\ Validated(c) /\ c.movement = "bench" /\ IsFeedback(c.result)
                  /\ ScenarioC(c.poseData.keypoints)
                  /\ c.result.score = 90

\* C19: the bench bar-path rule fires exactly one tier on a validated frame:
\* with deviation = |wrist-centre x - shoulder-centre x|, deviation > 0.08
\* gives the error and -20, otherwise deviation > 0.04 gives the soft feedback
\* and -5, otherwise "Great bar path!" and no penalty.
C19_BenchBarPath ==
  \A c \in Made : (Validated(c) /\ c.movement = "bench") =>
     /\ IsFeedback(c.result) /\ "details" \in DOMAIN c.result
     /\ c.result.details.barPath = Rat(IAbs(BarOffset2(c.poseData.keypoints)), 2 * GridScale)
     /\ ThreeTiers(c.result,
                   100 * IAbs(BarOffset2(c.poseData.keypoints)) > 8 * 2 * GridScale,
                   100 * IAbs(BarOffset2(c.poseData.keypoints)) > 4 * 2 * GridScale,
                   "Bar drifting - keep it over your shoulders", 20,
                   "Minor bar drift - focus on straight up and down", 5,
                   "Great bar path!")

\* a validated bench frame whose wrist centre is left of the shoulder centre
\* by more than 0.04 and at most 0.08
C19_Witness ==
  \E c \in Made : /\ Validated(c) /\ c.movement = "bench" /\ IsFeedback(c.result)
                  /\ BarOffset2(c.poseData.keypoints) < 0
                  /\ Count(c.result.feedback,
                           "Minor bar drift - focus on straight up and down") = 1

\* twice the vector from hip centre to shoulder centre, in grid steps
BackX2(kp) ==
  (kp["leftShoulder"].x + kp["rightShoulder"].x) - (kp["leftHip"].x + kp["rightHip"].x)

BackY2(kp) ==
  (kp["leftShoulder"].y + kp["rightShoulder"].y) - (kp["leftHip"].y + kp["rightHip"].y)

\* |atan2(y, x)| > 30 degrees: tan^2 of 30 degrees is 1/3
Above30(x, y) ==
  IF x = 0 /\ y = 0 THEN FALSE
  ELSE x <= 0 \/ 3 * y * y > x * x

\* |atan2(y, x)| > 15 degrees: tan^2 of 15 degrees is 7 - 4 * sqrt(3)
Above15(x, y) ==
  IF x = 0 /\ y = 0 THEN FALSE
  ELSE \/ x <= 0
       \/ 7 * x * x <= y * y
       \/ 48 * x * x * x * x > (7 * x * x - y * y) * (7 * x * x - y * y)

\* C20: the deadlift back rule takes angle = atan2(shoulder-centre y -
\* hip-centre y, shoulder-centre x - hip-centre x) in degrees: |angle| > 30
\* gives the back-rounding error and -30, otherwise |angle| > 15 gives the
\* soft feedback and -10, otherwise "Good back position!" and no penalty;
\* details.backAngle is |angle|.
C20_DeadliftBackRule ==
  \A c \in Made : (Validated(c) /\ c.movement = "deadlift") =>
     /\ IsFeedback(c.result) /\ "details" \in DOMAIN c.result
     /\ c.result.details.backAngle.k = "deg"
     /\ c.result.details.backAngle.n >= 0
     /\ c.result.details.backAngle.n + c.result.details.backAngle.d <= 2 * 180
     /\ Gt(c.result.details.backAngle, Rat(30, 1))
          <=> Above30(BackX2(c.poseData.keypoints), BackY2(c.poseData.keypoints))
     /\ Gt(c.result.details.backAngle, Rat(15, 1))
          <=> Above15(BackX2(c.poseData.keypoints), BackY2(c.poseData.keypoints))
     /\ (BackY2(c.poseData.keypoints) = 0 /\ BackX2(c.poseData.keypoints) < 0)
          => c.result.details.backAngle = [k |-> "deg", n |-> 2 * 180, d |-> 0]
     /\ ThreeTiers(c.result,
                   Above30(BackX2(c.poseData.keypoints), BackY2(c.poseData.keypoints)),
                   Above15(BackX2(c.poseData.keypoints), BackY2(c.poseData.keypoints)),
                   "Back rounding detected - keep your back straight", 30,
                   "Slight back rounding - focus on neutral spine", 10,
                   "Good back position!")

\* a validated deadlift frame whose angle is negative and between 15 and 30
\* degrees in size
C20_Witness ==
  \E c \in Made : /\ Validated(c) /\ c.movement = "deadlift" /\ IsFeedback(c.result)
                  /\ BackY2(c.poseData.keypoints) < 0
                  /\ BackX2(c.poseData.keypoints) > 0
                  /\ Count(c.result.feedback,
                           "Slight back rounding - focus on neutral spine") = 1

\* the square of twice the distance of hip centre and knee centre, in grid steps
HingeDist2(kp) ==
  ((kp["leftHip"].x + kp["rightHip"].x) - (kp["leftKnee"].x + kp["rightKnee"].x))
    * ((kp["leftHip"].x + kp["rightHip"].x) - (kp["leftKnee"].x + kp["rightKnee"].x))
  + ((kp["leftHip"].y + kp["rightHip"].y) - (kp["leftKnee"].y + kp["rightKnee"].y))
    * ((kp["leftHip"].y + kp["rightHip"].y) - (kp["leftKnee"].y + kp["rightKnee"].y))

\* C21: the deadlift hip-hinge rule fires exactly one tier on a validated
\* frame: with d the Euclidean distance of hip centre and knee centre, d < 0.1
\* gives the error and -25, otherwise d < 0.15 gives the soft feedback and -5,
\* otherwise the positive feedback and no penalty.
C21_DeadliftHingeRule ==
  \A c \in Made : (Validated(c) /\ c.movement = "deadlift") =>
     /\ IsFeedback(c.result) /\ "details" \in DOMAIN c.result
     /\ c.result.details.hipHinge.k = "sqrt"
     /\ c.result.details.hipHinge.n * 4 * GridScale * GridScale
          = HingeDist2(c.poseData.keypoints) * c.result.details.hipHinge.d
     /\ ThreeTiers(c.result,
                   100 * HingeDist2(c.poseData.keypoints) < 4 * GridScale * GridScale,
                   10000 * HingeDist2(c.poseData.keypoints)
                     < 15 * 15 * 4 * GridScale * GridScale,
                   "Not enough hip hinge - push your hips back", 25,
                   "Good hip hinge, try to push hips back slightly more", 5,
                   "Excellent hip hinge pattern!")

\* a validated deadlift frame whose hip-to-knee distance is in [0.1, 0.15)
C21_Witness ==
  \E c \in Made : /\ Validated(c) /\ c.movement = "deadlift" /\ IsFeedback(c.result)
                  /\ 100 * HingeDist2(c.poseData.keypoints) >= 4 * GridScale * GridScale
                  /\ Count(c.result.feedback,
                           "Good hip hinge, try to push hips back slightly more") = 1

BothAnkles(kp) == {"leftAnkle", "rightAnkle"} \subseteq DOMAIN kp

\* twice (knee-centre x - ankle-centre x), in grid steps
KneeOffset2(kp) ==
  (kp["leftKnee"].x + kp["rightKnee"].x) - (kp["leftAnkle"].x + kp["rightAnkle"].x)

\* C22: the deadlift knee-over-toe rule is applied exactly when both ankles
\* are present: |knee-centre x - ankle-centre x| > 0.08 appends one error and
\* subtracts 15, otherwise nothing is appended; with an ankle absent the frame
\* is still evaluated and the rule changes neither score, feedback nor errors.
C22_DeadliftKneeRule ==
  \A c \in Made : (Validated(c) /\ c.movement = "deadlift") =>
     /\ IsFeedback(c.result) /\ "details" \in DOMAIN c.result
     /\ Count(c.result.feedback, "Knees too far forward - keep shins more vertical") = 0
     /\ Len(c.result.feedback) + Len(c.result.errors)
          = 2 + Count(c.result.errors, "Knees too far forward - keep shins more vertical")
     /\ IF /\ BothAnkles(c.poseData.keypoints)
           /\ 100 * IAbs(KneeOffset2(c.poseData.keypoints)) > 8 * 2 * GridScale
        THEN /\ Count(c.result.errors,
                      "Knees too far forward - keep shins more vertical") = 1
             /\ ScoreWith(c.result, 15,
                          {"Knees too far forward - keep shins more vertical"})
        ELSE /\ Count(c.result.errors,
                      "Knees too far forward - keep shins more vertical") = 0
             /\ ScoreWith(c.result, 0,
                          {"Knees too far forward - keep shins more vertical"})

\* a validated deadlift frame with one ankle absent, evaluated
C22_Witness ==
  \E c \in Made : /\ Validated(c) /\ c.movement = "deadlift" /\ IsFeedback(c.result)
                  /\ "leftAnkle" \in DOMAIN c.poseData.keypoints
                  /\ "rightAnkle" \notin DOMAIN c.poseData.keypoints
                  /\ "details" \in DOMAIN c.result

\* the place of each message's rule in the evaluation order of its movement
RuleOrder ==
  [m \in {"Squat deeper - hips need to go below knee level",
          "Good depth! Try to go slightly deeper", "Excellent depth!",
          "Elbows too flared - bring them closer to your body",
          "Slight elbow flare - try to keep elbows at 45-degree angle",
          "Good elbow position!",
          "Back rounding detected - keep your back straight",
          "Slight back rounding - focus on neutral spine", "Good back position!"} |-> 1] @@
  [m \in {"Knees caving in - push knees out over toes",
          "Watch knee alignment - keep them tracking over toes", "Great knee tracking!",
          "Bar drifting - keep it over your shoulders",
          "Minor bar drift - focus on straight up and down", "Great bar path!",
          "Not enough hip hinge - push your hips back",
          "Good hip hinge, try to push hips back slightly more",
          "Excellent hip hinge pattern!"} |-> 2] @@
  [m \in {"Too much forward lean - keep chest up",
          "Slight forward lean - focus on keeping chest up", "Good upright posture!",
          "Uneven press - check your grip and shoulder position",
          "Knees too far forward - keep shins more vertical"} |-> 3] @@
  [m \in {"Uneven squat - check your stance and balance"} |-> 4]

\* the messages of q are rule messages, in strictly increasing rule order
InRuleOrder(q) ==
  /\ \A i \in DOMAIN q : q[i] \in DOMAIN RuleOrder
  /\ \A i \in DOMAIN q : \A j \in DOMAIN q : i < j => RuleOrder[q[i]] < RuleOrder[q[j]]

\* C23: in every result of a validated frame the feedback strings and the
\* error strings each stand in the fixed rule order of the movement (squat:
\* depth, knee tracking, forward lean, symmetry; bench: elbow, bar path,
\* symmetry; deadlift: back angle, hip hinge, knee position), not ranked by
\* severity; a squat frame without shoulders and with every rule in its
\* positive tier gets feedback <<"Excellent depth!", "Great knee tracking!">>,
\* no errors and score 100.
C23_RuleOrder ==
  \A c \in Made : Validated(c) =>
     /\ IsFeedback(c.result)
     /\ InRuleOrder(c.result.feedback)
     /\ InRuleOrder(c.result.errors)
     /\ ( /\ c.movement = "squat"
          /\ ~BothShoulders(c.poseData.keypoints)
          /\ c.result.errors = <<>>
          /\ Entries(c.result.feedback) \cap DOMAIN SoftTiers = {} ) =>
          /\ c.result.feedback = <<"Excellent depth!", "Great knee tracking!">>
          /\ c.result.score = 100

\* a squat frame on which a later rule is more severe than an earlier one:
\* soft depth feedback before the knee error, two feedback strings, two errors
C23_Witness ==
  \E c \in Made : /\ Validated(c) /\ c.movement = "squat" /\ IsFeedback(c.result)
                  /\ Len(c.result.feedback) = 2
                  /\ Len(c.result.errors) = 2
                  /\ c.result.feedback[1] \in DOMAIN SoftTiers
                  /\ c.result.feedback[2] \in PositiveTiers

\* C24: a frame whose keypoints mapping exists but holds no landmark, passed
\* with a known movement, gets the zero-score empty result: score 0, no
\* feedback entries and no error entries.
C24_EmptyKeypoints ==
  \A c \in Made :
     ( /\ c.movement \in KnownMovements
       /\ ~NoPose(c.poseData)
       /\ DOMAIN c.poseData.keypoints = {} ) =>
     /\ IsFeedback(c.result)
     /\ c.result.score = 0
     /\ c.result.feedback = <<>>
     /\ c.result.errors = <<>>

\* C24 as amended: a frame whose keypoints mapping exists but holds no
\* landmark, passed with a known movement, gets the incomplete-pose result:
\* score 0, one feedback entry, the one error "Incomplete pose detection" and
\* no details; the result without feedback and errors is kept for a null
\* pose and a pose without keypoints mapping.
C24_EmptyKeypointsIncomplete ==
  \A c \in Made : c.movement \in KnownMovements =>
     /\ IsFeedback(c.result)
     /\ ("null" \notin DOMAIN c.poseData /\ "keypoints" \in DOMAIN c.poseData
           /\ DOMAIN c.poseData.keypoints = {}) =>
          /\ c.result.score = 0
          /\ Len(c.result.feedback) = 1
          /\ c.result.errors = <<"Incomplete pose detection">>
          /\ "details" \notin DOMAIN c.result
     /\ ("null" \in DOMAIN c.poseData \/ "keypoints" \notin DOMAIN c.poseData) =>
          c.result = [score |-> 0, feedback |-> <<>>, errors |-> <<>>]

\* a squat call on a frame whose keypoints mapping holds no landmark
C24_Witness ==
  \E c \in Made : /\ c.movement = "squat"
                  /\ "null" \notin DOMAIN c.poseData
                  /\ "keypoints" \in DOMAIN c.poseData
                  /\ DOMAIN c.poseData.keypoints = {}
                  /\ IsFeedback(c.result)
                  /\ Len(c.result.errors) = 1

\* C25: on a validated squat frame whose left ankle is not above the hip line
\* (leftAnkle.y >= average hip y) repCompleted is false: depth ratio > 0.2 and
\* average hip y > average knee y do not hold together there.
C25_NoRepBelowHips ==
  \A c \in Made :
     ( /\ Validated(c) /\ c.movement = "squat"
       /\ 2 * c.poseData.keypoints["leftAnkle"].y
            >= c.poseData.keypoints["leftHip"].y + c.poseData.keypoints["rightHip"].y ) =>
     /\ IsFeedback(c.result) /\ "repCompleted" \in DOMAIN c.result
     /\ ~c.result.repCompleted

\* a validated squat frame with the hips below the knees and the left ankle
\* on the hip line
C25_Witness ==
  \E c \in Made :
     /\ Validated(c) /\ c.movement = "squat" /\ IsFeedback(c.result)
     /\ 2 * c.poseData.keypoints["leftAnkle"].y
          = c.poseData.keypoints["leftHip"].y + c.poseData.keypoints["rightHip"].y
     /\ c.poseData.keypoints["leftHip"].y + c.poseData.keypoints["rightHip"].y
          > c.poseData.keypoints["leftKnee"].y + c.poseData.keypoints["rightKnee"].y
     /\ "repCompleted" \in DOMAIN c.result
     /\ ~c.result.repCompleted

\* the lowest score of a frame that passes validation
MinScore(mv) ==
  CASE mv = "squat"    -> 100 - 25 - 30 - 20 - 15
    [] mv = "bench"    -> 100 - 25 - 20 - 15
    [] mv = "deadlift" -> 100 - 30 - 25 - 15

\* C26: a frame that passes validation scores at least 10 for squat, 40 for
\* bench and 30 for deadlift, so the clamp at 0 changes nothing; analyze
\* returns score 0 exactly when the movement is unknown, the pose is null or
\* a required landmark is missing.
C26_ScoreFloor ==
  \A c \in Made :
     /\ IsFeedback(c.result)
     /\ Validated(c) =>
          /\ c.result.score >= MinScore(c.movement)
          /\ c.result.score = 100 - Penalties(c.result)
     /\ c.result.score = 0 <=> ~Validated(c)

\* a validated deadlift frame at the lowest deadlift score
C26_Witness ==
  \E c \in Made : /\ Validated(c) /\ c.movement = "deadlift" /\ IsFeedback(c.result)
                  /\ c.result.score = MinScore("deadlift")

\* the 0/0 cases of the squat metrics
DepthUndefined(kp) ==
  /\ kp["leftKnee"].y + kp["rightKnee"].y = kp["leftHip"].y + kp["rightHip"].y
  /\ 2 * kp["leftAnkle"].y = kp["leftHip"].y + kp["rightHip"].y

KneeUndefined(kp) == KneeWidth(kp) = 0 /\ HipWidth(kp) = 0

LegsUndefined(kp) ==
  Len2(kp["leftKnee"], kp["leftHip"]) = 0 /\ Len2(kp["rightKnee"], kp["rightHip"]) = 0

\* the 0/0 cases of the bench metrics
ElbowUndefined(kp) ==
  \/ kp["leftElbow"] = kp["leftShoulder"] \/ kp["leftElbow"] = kp["leftWrist"]
  \/ kp["rightElbow"] = kp["rightShoulder"] \/ kp["rightElbow"] = kp["rightWrist"]

ArmsUndefined(kp) ==
  Len2(kp["leftWrist"], kp["leftShoulder"]) = 0 /\ Len2(kp["rightWrist"], kp["rightShoulder"]) = 0

\* an undefined metric, its rule's positive string when it has one, none of
\* the rule's other strings and no penalty of the rule
GoodByDefault(r, metric, good, others) ==
  /\ IsNaN(metric)
  /\ good # "" => Count(r.feedback, good) = 1
  /\ (Entries(r.feedback) \cup Entries(r.errors)) \cap others = {}
  /\ ScoreWith(r, 0, others)

\* C27: a rule whose metric is a 0/0 quotient (squat depth with hip, knee and
\* left-ankle heights equal; knee ratio with knee and hip width zero; bench
\* elbow angle with an elbow on its shoulder or wrist; symmetry with both
\* lengths zero) applies no penalty and, when tiered, appends its positive
\* string, so a degenerate validated frame counts as good form for it.
C27_UndefinedMetricIsGood ==
  \A c \in Made : (Validated(c) /\ c.movement \in {"squat", "bench"}) =>
     /\ IsFeedback(c.result) /\ "details" \in DOMAIN c.result
     /\ LET kp == c.poseData.keypoints
            r  == c.result
        IN  IF c.movement = "squat"
            THEN /\ DepthUndefined(kp) =>
                      GoodByDefault(r, r.details.depth, "Excellent depth!",
                        {"Squat deeper - hips need to go below knee level",
                         "Good depth! Try to go slightly deeper"})
                 /\ KneeUndefined(kp) =>
                      GoodByDefault(r, r.details.kneeTracking, "Great knee tracking!",
                        {"Knees caving in - push knees out over toes",
                         "Watch knee alignment - keep them tracking over toes"})
                 /\ LegsUndefined(kp) =>
                      GoodByDefault(r, r.details.symmetry, "",
                        {"Uneven squat - check your stance and balance"})
            ELSE /\ ElbowUndefined(kp) =>
                      GoodByDefault(r, r.details.elbowAngle, "Good elbow position!",
                        {"Elbows too flared - bring them closer to your body",
                         "Slight elbow flare - try to keep elbows at 45-degree angle"})
                 /\ ArmsUndefined(kp) =>
                      GoodByDefault(r, r.details.symmetry, "",
                        {"Uneven press - check your grip and shoulder position"})

\* a validated squat frame with hips, knees and left ankle at one point:
\* depth, knee ratio and symmetry are all 0/0
C27_Witness ==
  \E c \in Made : /\ Validated(c) /\ c.movement = "squat" /\ IsFeedback(c.result)
                  /\ DepthUndefined(c.poseData.keypoints)
                  /\ KneeUndefined(c.poseData.keypoints)
                  /\ LegsUndefined(c.poseData.keypoints)
                  /\ "details" \in DOMAIN c.result

\* C28: on a validated deadlift frame whose shoulder centre is not strictly
\* right of the hip centre (shoulder-centre x <= hip-centre x) and is not the
\* hip centre itself, the back-rounding error is reported and the score is at
\* most 70; an exactly vertical torso (equal x, different y), which also sets
\* repCompleted, always gets the error.
C28_UprightTorsoIsRounded ==
  \A c \in Made :
     ( /\ Validated(c) /\ c.movement = "deadlift"
       /\ BackX2(c.poseData.keypoints) <= 0
       /\ ~(BackX2(c.poseData.keypoints) = 0 /\ BackY2(c.poseData.keypoints) = 0) ) =>
     /\ IsFeedback(c.result) /\ "repCompleted" \in DOMAIN c.result
     /\ Count(c.result.errors, "Back rounding detected - keep your back straight") = 1
     /\ c.result.score <= 100 - 30
     /\ BackX2(c.poseData.keypoints) = 0 => c.result.repCompleted

\* a validated deadlift frame with the shoulder centre straight above the
\* hip centre: a completed rep and the back-rounding error
C28_Witness ==
  \E c \in Made : /\ Validated(c) /\ c.movement = "deadlift" /\ IsFeedback(c.result)
                  /\ BackX2(c.poseData.keypoints) = 0
                  /\ BackY2(c.poseData.keypoints) < 0
                  /\ "repCompleted" \in DOMAIN c.result
                  /\ c.result.repCompleted
                  /\ Count(c.result.errors,
                           "Back rounding detected - keep your back straight") = 1


\* a recording is started by this step
Starts == timers'.started > timers.started

\* the same mounted component before and after this step, no recording started
SameRecording == camera.mounted /\ camera'.mounted /\ ~Starts

\* C29: a mock recording starts with recordingTime 0 and isRecording true;
\* within a recording recordingTime changes only by +1 per tick and never
\* exceeds 5; the tick that observes recordingTime >= 5 ends the recording
\* and the recording does not end by itself before; whenever the component
\* is not recording the interval timer is cleared, and from a stopped
\* component no step changes recordingTime until the next start.
C29_RecordingClock ==
  /\ [](camera.recordingTime <= 5)
  /\ [](camera.mounted /\ ~camera.isRecording => ~camera.recordingTimer)
  /\ [][Starts => camera'.isRecording /\ camera'.recordingTimer
                   /\ camera'.recordingTime = 0]_vars
  /\ [][SameRecording => camera'.recordingTime \in {camera.recordingTime,
                                                    camera.recordingTime + 1}]_vars
  /\ [][SameRecording /\ camera'.recordingTime # camera.recordingTime
          => camera.isRecording /\ camera'.isRecording /\ timers'.stops = timers.stops]_vars
  /\ [][SameRecording /\ camera.isRecording /\ camera.recordingTime >= 5
          /\ camera' # camera => ~camera'.isRecording /\ timers'.stops = timers.stops + 1]_vars
  /\ [][SameRecording /\ ~camera.isRecording
          => camera'.recordingTime = camera.recordingTime /\ ~camera'.isRecording]_vars

\* a mounted component whose recording has stopped after 5 counted seconds
C29_Witness ==
  /\ camera.mounted /\ ~camera.isRecording /\ ~camera.recordingTimer
  /\ camera.recordingTime = 5
  /\ timers.timeouts # <<>>
  /\ timers.timeouts[Len(timers.timeouts)].shown = 5


\* the onAnalysisComplete calls scheduled by a stop and not yet made
Scheduled == {timers.timeouts[i] : i \in 1..Len(timers.timeouts)}

\* C30: every stop of a mock recording schedules exactly one
\* onAnalysisComplete call; the call's duration is the recordingTime shown at
\* the moment of the stop and its movement is the movement selected when the
\* call is made; the App's handler leaves the results stored as lastAnalysis,
\* the camera modal closed and the results modal open.
C30_AnalysisDelivered ==
  /\ timers.stops = timers.completed + Len(timers.timeouts)
  /\ \A call \in Scheduled : call.duration = call.shown
  /\ app.last = "handleAnalysisComplete"
       => /\ app.lastAnalysis # NoAnalysis
          /\ app.lastAnalysis.movement = app.selectedMovement
          /\ ~app.isCameraActive
          /\ app.showResults

====
